---- MODULE Spec2Model ----
(***************************************************************************)
(* The generation client of src/services/geminiService.ts: getAiClient,    *)
(* fileToGenerativePart, editImage and generateVideo, as a state machine.  *)
(* Every await of the source is a suspension point: one action runs the    *)
(* synchronous code from one resumption to the next suspension, return or  *)
(* throw.  The remote service, the FileReader and the timer are the        *)
(* environment: their outcomes are chosen from small sets.                 *)
(***************************************************************************)
EXTENDS Integers, Sequences, FiniteSets, TLC

VARIABLES
    env,    \* process.env.API_KEY, the process-wide credential
    inv,    \* the invocations of editImage / generateVideo, by id
    enc,    \* one call of fileToGenerativePart, with its FileReader
    mode,       \* App: the component that is mounted, 'image' or 'video'
    aistudio,   \* window.aistudio and its key-selection dialog
    vg,         \* the state of the mounted VideoGenerator
    ie          \* the state of the mounted ImageEditor

vars == <<env, inv, enc, mode, aistudio, vg, ie>>

\* The state outside editImage and generateVideo.
outside == <<enc, mode, aistudio, vg, ie>>

\* The state outside fileToGenerativePart.
aroundEncoder == <<env, inv, mode, aistudio, vg, ie>>

(***************************************************************************)
(* Bounds.                                                                 *)
(***************************************************************************)
\* The remote service reports done == false on at most MaxPolls snapshots of a job.
MaxPolls == 3
\* A file holds at most MaxFileLen bytes.
MaxFileLen == 3

(***************************************************************************)
(* Program constants.                                                      *)
(***************************************************************************)
\* setTimeout(resolve, 10000)
PollIntervalMs == 10000

(***************************************************************************)
(* JavaScript values.  A string is a sequence of tokens, so that           *)
(* concatenation (a template literal) is \o and "" is << >>.               *)
(***************************************************************************)
Undefined == [t |-> "undefined"]
Str(s) == [t |-> "string", v |-> s]
Arr(s) == [t |-> "array", v |-> s]

IsUndefined(x) == x.t = "undefined"

\* !x for the values the code tests: undefined and "" are falsy, objects are truthy.
Falsy(x) == x.t = "undefined" \/ (x.t = "string" /\ x.v = << >>)

\* `${x}` of a template literal: String(undefined) is "undefined".
TemplateText(x) == IF x.t = "undefined" THEN <<"undefined">> ELSE x.v

\* The values process.env.API_KEY can hold.
EnvValues == {Undefined, Str(<< >>), Str(<<"K1">>), Str(<<"K2">>)}

(***************************************************************************)
(* Snapshots of a video operation, as the remote service returns them.     *)
(***************************************************************************)
Operation(done, response) == [t |-> "object", done |-> done, response |-> response]
VideosResponse(gv) == [t |-> "object", generatedVideos |-> gv]
GeneratedVideo(video) == [t |-> "object", video |-> video]
Video(uri) == [t |-> "object", uri |-> uri]

Uri123 == Str(<<"https://example/video123">>)
UriOld == Str(<<"https://example/stale">>)
UriSecond == Str(<<"https://example/second">>)

PendingBare     == Operation(FALSE, Undefined)
PendingWithUri  == Operation(FALSE, VideosResponse(Arr(<<GeneratedVideo(Video(UriOld))>>)))
DoneNoResponse  == Operation(TRUE, Undefined)
DoneNoVideos    == Operation(TRUE, VideosResponse(Undefined))
DoneEmptyVideos == Operation(TRUE, VideosResponse(Arr(<< >>)))
DoneNoVideo     == Operation(TRUE, VideosResponse(Arr(<<GeneratedVideo(Undefined)>>)))
DoneNoUri       == Operation(TRUE, VideosResponse(Arr(<<GeneratedVideo(Video(Undefined))>>)))
DoneEmptyUri    == Operation(TRUE, VideosResponse(Arr(<<GeneratedVideo(Video(Str(<< >>)))>>)))
DoneWithUri     == Operation(TRUE, VideosResponse(Arr(<<GeneratedVideo(Video(Uri123))>>)))
DoneTwoVideos   == Operation(TRUE, VideosResponse(Arr(<<GeneratedVideo(Video(UriSecond)),
                                                        GeneratedVideo(Video(Uri123))>>)))

PendingSnapshots == {PendingBare, PendingWithUri}
DoneSnapshots == {DoneNoResponse, DoneNoVideos, DoneEmptyVideos, DoneNoVideo,
                  DoneNoUri, DoneEmptyUri, DoneWithUri, DoneTwoVideos}

(***************************************************************************)
(* Responses of generateContent.                                           *)
(***************************************************************************)
GenerateContentResponse(candidates) == [t |-> "object", candidates |-> candidates]
Candidate(content) == [t |-> "object", content |-> content]
Content(parts) == [t |-> "object", parts |-> parts]
TextPart == [t |-> "object", inlineData |-> Undefined]
InlinePart(data) == [t |-> "object", inlineData |-> [t |-> "object", data |-> data]]

Img1 == Str(<<"IMG1">>)
Img2 == Str(<<"IMG2">>)

RespNoCandidates    == GenerateContentResponse(Undefined)
RespEmptyCandidates == GenerateContentResponse(Arr(<< >>))
RespNoContent       == GenerateContentResponse(Arr(<<Candidate(Undefined)>>))
RespNoParts         == GenerateContentResponse(Arr(<<Candidate(Content(Undefined))>>))
RespEmptyParts      == GenerateContentResponse(Arr(<<Candidate(Content(Arr(<< >>)))>>))
RespTextOnly        == GenerateContentResponse(Arr(<<Candidate(Content(Arr(<<TextPart, TextPart>>)))>>))
RespTextThenImage   == GenerateContentResponse(Arr(<<Candidate(Content(Arr(<<TextPart, InlinePart(Img1)>>)))>>))
RespTwoImages       == GenerateContentResponse(Arr(<<Candidate(Content(Arr(<<InlinePart(Img2), InlinePart(Img1)>>)))>>))

EditResponses == {RespNoCandidates, RespEmptyCandidates, RespNoContent, RespNoParts,
                  RespEmptyParts, RespTextOnly, RespTextThenImage, RespTwoImages}

(***************************************************************************)
(* Progress messages handed to onProgress.                                 *)
(***************************************************************************)
Message(text, attempt) == [text |-> text, attempt |-> attempt]
Preparing  == Message("Preparing images for video generation...", 0)
Initiating == Message("Initiating video generation with Veo model...", 0)
InProgress == Message("Video generation in progress... This may take a few minutes.", 0)
Finalizing == Message("Finalizing video...", 0)
CheckingText == "Checking status (attempt k)... Please be patient."
Checking(pollCount) == Message(CheckingText, pollCount)

(***************************************************************************)
(* Files, and the data URL a FileReader makes of one.  A text is a         *)
(* sequence of characters; a declared type is kept as one token, since a   *)
(* media type (type "/" subtype) holds no comma.                           *)
(***************************************************************************)
ByteValues == {0, 77, 255}

RECURSIVE ByteSeqs(_)
ByteSeqs(n) ==
    IF n = 0 THEN {<< >>}
    ELSE LET shorter == ByteSeqs(n - 1) IN
         shorter \cup {Append(b, x) : b \in {s \in shorter : Len(s) = n - 1}, x \in ByteValues}

FileTypes == {<< >>, <<"image/png">>, <<"image/jpeg">>}

File(bytes, type) == [bytes |-> bytes, type |-> type]
Files == {File(b, ty) : b \in ByteSeqs(MaxFileLen), ty \in FileTypes}

Base64Alphabet ==
    <<"A", "B", "C", "D", "E", "F", "G", "H", "I", "J", "K", "L", "M", "N", "O", "P",
      "Q", "R", "S", "T", "U", "V", "W", "X", "Y", "Z", "a", "b", "c", "d", "e", "f",
      "g", "h", "i", "j", "k", "l", "m", "n", "o", "p", "q", "r", "s", "t", "u", "v",
      "w", "x", "y", "z", "0", "1", "2", "3", "4", "5", "6", "7", "8", "9", "+", "/">>

PadChar == "="

\* The four characters of one group of one, two or three bytes.
Base64Group(group) ==
    LET b1 == group[1]
        b2 == IF Len(group) >= 2 THEN group[2] ELSE 0
        b3 == IF Len(group) >= 3 THEN group[3] ELSE 0
        n == b1 * 65536 + b2 * 256 + b3
    IN  << Base64Alphabet[(n \div 262144) + 1],
           Base64Alphabet[((n \div 4096) % 64) + 1],
           IF Len(group) >= 2 THEN Base64Alphabet[((n \div 64) % 64) + 1] ELSE PadChar,
           IF Len(group) >= 3 THEN Base64Alphabet[(n % 64) + 1] ELSE PadChar >>

RECURSIVE Base64(_)
Base64(bytes) ==
    IF Len(bytes) = 0 THEN << >>
    ELSE IF Len(bytes) <= 3 THEN Base64Group(bytes)
    ELSE Base64Group(SubSeq(bytes, 1, 3)) \o Base64(SubSeq(bytes, 4, Len(bytes)))

\* reader.result after a successful readAsDataURL: data:<type>;base64,<data>,
\* where a file without a type is given application/octet-stream.
DataUrl(file) ==
    <<"data:">>
        \o (IF file.type = << >> THEN <<"application/octet-stream">> ELSE file.type)
        \o <<";base64", ",">>
        \o Base64(file.bytes)

\* text.split(sep): the pieces of text between the occurrences of sep.
RECURSIVE Split(_, _)
Split(text, sep) ==
    IF \A k \in 1..Len(text) : text[k] # sep THEN <<text>>
    ELSE LET at == CHOOSE k \in 1..Len(text) :
                       text[k] = sep /\ \A j \in 1..(k - 1) : text[j] # sep
         IN  <<SubSeq(text, 1, at - 1)>> \o Split(SubSeq(text, at + 1, Len(text)), sep)

\* array[index] of JavaScript, whose indices start at 0.
At(pieces, index) == IF index + 1 <= Len(pieces) THEN Str(pieces[index + 1]) ELSE Undefined

\* Mutant: the piece before the comma.
ResultDataHead(result) == At(Split(result, ","), 0)

\* reader.result.split(',')[1]
ResultData(result) == At(Split(result, ","), 1)

\* { inlineData: { data: await base64EncodedDataPromise, mimeType: file.type } }
GenerativePart(data, file) ==
    [t |-> "object", inlineData |-> [t |-> "object", data |-> data, mimeType |-> Str(file.type)]]

(***************************************************************************)
(* fileToGenerativePart: one call, from readAsDataURL to the return or the *)
(* throw.  The reader ends with load + loadend (result is the data URL),   *)
(* with abort + loadend (result is null) or with error + loadend (result   *)
(* is null).                                                               *)
(***************************************************************************)
NoFile == File(<< >>, << >>)

NotEncoding ==
    [ pc      |-> "idle",       \* idle | reading | errored | returned | thrown
      file    |-> NoFile,       \* the argument
      result  |-> Undefined,    \* reader.result
      promise |-> "none",       \* base64EncodedDataPromise: pending | resolved | rejected
      settles |-> 0,            \* resolve / reject calls made
      part    |-> Undefined,    \* the value returned
      err     |-> "none" ]      \* the error thrown

\* reader.onloadend
OnLoadEnd(e) ==
    LET e1 == [e EXCEPT !.settles = @ + 1] IN
    IF e.result.t = "string"
    THEN IF e.promise = "pending"
         THEN [e1 EXCEPT !.promise = "resolved",
                         !.pc = "returned",
                         !.part = GenerativePart(ResultData(e.result.v), e.file)]
         ELSE e1
    ELSE IF e.promise = "pending"
         THEN [e1 EXCEPT !.promise = "rejected", !.pc = "thrown", !.err = "ReadFailed"]
         ELSE [e1 EXCEPT !.pc = "thrown"]

\* reader.onerror
OnError(e) ==
    [e EXCEPT !.settles = @ + 1,
              !.promise = "rejected",
              !.err = "ReadErrorEvent",
              !.pc = "errored"]

FileToGenerativePartCall ==
    /\ enc.pc = "idle"
    /\ \E file \in Files :
         enc' = [NotEncoding EXCEPT !.pc = "reading", !.file = file, !.promise = "pending"]
    /\ UNCHANGED aroundEncoder

ReaderLoads ==
    /\ enc.pc = "reading"
    /\ enc' = OnLoadEnd([enc EXCEPT !.result = Str(DataUrl(enc.file))])
    /\ UNCHANGED aroundEncoder

ReaderAborts ==
    /\ enc.pc = "reading"
    /\ enc' = OnLoadEnd(enc)
    /\ UNCHANGED aroundEncoder

ReaderErrors ==
    /\ enc.pc = "reading"
    /\ enc' = OnError(enc)
    /\ UNCHANGED aroundEncoder

ReaderLoadEndAfterError ==
    /\ enc.pc = "errored"
    /\ enc' = OnLoadEnd(enc)
    /\ UNCHANGED aroundEncoder

EncoderCallerResumes ==
    /\ enc.pc \in {"returned", "thrown"}
    /\ enc' = NotEncoding
    /\ UNCHANGED aroundEncoder

(***************************************************************************)
(* One invocation.                                                         *)
(***************************************************************************)
Idle ==
    [ fn        |-> "none",      \* editImage | generateVideo
      pc        |-> "idle",      \* where the invocation is suspended
      ai        |-> Undefined,   \* the apiKey the client was created with
      operation |-> Undefined,   \* let operation
      pollCount |-> 0,           \* let pollCount
      progress  |-> << >>,       \* the messages onProgress has received
      reads     |-> 0,           \* reader.readAsDataURL calls
      calls     |-> << >>,       \* the remote calls issued
      args      |-> << >>,       \* the operation passed to each getVideosOperation
      timer     |-> 0,           \* the delay of the pending setTimeout, 0 if none
      waited    |-> 0,           \* the time spent suspended on timers, in ms
      fetched   |-> << >>,       \* the snapshots the remote service returned
      result    |-> Undefined,   \* the value the promise resolved with
      err       |-> "none" ]     \* the error the promise rejected with

Thrown(s, e) == [s EXCEPT !.pc = "thrown", !.err = e]
Returned(s, value) == [s EXCEPT !.pc = "returned", !.result = value]

(***************************************************************************)
(* The components.  A component that is not mounted has no state: its      *)
(* record holds the initial values, which is what the next mount starts    *)
(* from.  gen is the invocation whose promise the component's handler      *)
(* awaits, 0 if none.                                                      *)
(***************************************************************************)
Null == [t |-> "null"]

VideoGeneratorInitial ==
    [ mounted           |-> FALSE,
      startFrame        |-> Null,       \* startFrame.file
      endFrame          |-> Null,       \* endFrame.file
      generatedVideoUrl |-> Null,
      prompt            |-> << >>,
      isLoading         |-> FALSE,
      loadingMessage    |-> Message("", 0),
      error             |-> Null,
      isKeySelected     |-> FALSE,
      checking          |-> FALSE,      \* checkApiKey awaits hasSelectedApiKey()
      selecting         |-> FALSE,      \* handleSelectKey awaits openSelectKey()
      gen               |-> 0 ]

ImageEditorInitial ==
    [ mounted       |-> FALSE,
      originalImage |-> Null,           \* originalImage.file
      editedImage   |-> Null,
      prompt        |-> << >>,
      isLoading     |-> FALSE,
      error         |-> Null,
      editTarget    |-> "image",
      editing       |-> Null,           \* the file and prompt passed to the editImage awaited
      editedOf      |-> Null,           \* the file that editedImage is an edit of
      gen           |-> 0 ]

\* window.aistudio: whether the host page provides it, whether its dialog is
\* open, and whether the key it holds has been reported as not found since it
\* was last selected.
AiStudio(present) == [present |-> present, dialog |-> FALSE, staleKey |-> FALSE]

\* App renders the ImageEditor first.
AppInitial ==
    /\ mode = "image"
    /\ vg = VideoGeneratorInitial
    /\ ie = [ImageEditorInitial EXCEPT !.mounted = TRUE]

Init ==
    /\ env \in EnvValues
    /\ inv = [i \in {1} |-> Idle]
    /\ enc = NotEncoding
    /\ aistudio = AiStudio(FALSE)
    /\ AppInitial

(***************************************************************************)
(* getAiClient and fileToGenerativePart.                                   *)
(***************************************************************************)
\* if (!key) throw
GetAiClientThrows(key) == Falsy(key)

\* How a FileReader read ends: load (result is a data URL), abort (loadend
\* with a null result), error (the error event, then loadend).
ReadOutcomes == {"load", "abort", "error"}

\* What base64EncodedDataPromise rejects with.
ReadError(outcome) == IF outcome = "error" THEN "ReadErrorEvent" ELSE "ReadFailed"

(***************************************************************************)
(* generateVideo.                                                          *)
(***************************************************************************)
\* Mutant: the link of the last generated video instead of the first.
DownloadLinkLast(operation) ==
    IF IsUndefined(operation.response) THEN Undefined
    ELSE IF IsUndefined(operation.response.generatedVideos) THEN Undefined
    ELSE IF Len(operation.response.generatedVideos.v) = 0 THEN Undefined
    ELSE LET n == Len(operation.response.generatedVideos.v) IN
         IF IsUndefined(operation.response.generatedVideos.v[n].video) THEN Undefined
         ELSE operation.response.generatedVideos.v[n].video.uri

\* operation.response?.generatedVideos?.[0]?.video?.uri
DownloadLink(operation) ==
    IF IsUndefined(operation.response) THEN Undefined
    ELSE IF IsUndefined(operation.response.generatedVideos) THEN Undefined
    ELSE IF Len(operation.response.generatedVideos.v) = 0 THEN Undefined
    ELSE IF IsUndefined(operation.response.generatedVideos.v[1].video) THEN Undefined
    ELSE operation.response.generatedVideos.v[1].video.uri

\* Mutant: the loop ends as soon as the snapshot carries a response object.
LoopConditionOnResponse(operation) == ~operation.done /\ IsUndefined(operation.response)

\* while (!operation.done)
LoopCondition(operation) == ~operation.done

\* Mutant: a missing link is not thrown; the function ends without a value.
FinalizeNoThrow(s, key) ==
    LET s1 == [s EXCEPT !.progress = Append(@, Finalizing)]
        downloadLink == DownloadLink(s.operation)
    IN  IF Falsy(downloadLink)
        THEN Returned(s1, Undefined)
        ELSE Returned(s1, Str(downloadLink.v \o <<"&key=">> \o TemplateText(key)))

\* Mutant: the link is tested before the last message is emitted.
FinalizeCheckFirst(s, key) ==
    IF Falsy(DownloadLink(s.operation))
    THEN Thrown(s, "NoDownloadLink")
    ELSE Returned([s EXCEPT !.progress = Append(@, Finalizing)],
                  Str(DownloadLink(s.operation).v \o <<"&key=">> \o TemplateText(key)))

\* The code after the loop: the last message, the link, the throw or the return.
Finalize(s, key) ==
    LET s1 == [s EXCEPT !.progress = Append(@, Finalizing)]
        downloadLink == DownloadLink(s.operation)
    IN  IF Falsy(downloadLink)
        THEN Thrown(s1, "NoDownloadLink")
        ELSE Returned(s1, Str(downloadLink.v \o <<"&key=">> \o TemplateText(key)))

\* Mutant: the loop gives up after two attempts.
PollLoopCeiling(s, key) ==
    IF ~s.operation.done /\ s.pollCount < 2
    THEN [s EXCEPT !.pollCount = @ + 1,
                   !.progress = Append(@, Checking(s.pollCount + 1)),
                   !.timer = PollIntervalMs,
                   !.pc = "sleep"]
    ELSE Finalize(s, key)

\* Mutant: a do-while loop, which polls once before it tests done.
PollLoopDoWhile(s, key) ==
    IF s.pollCount = 0 \/ ~s.operation.done
    THEN [s EXCEPT !.pollCount = @ + 1,
                   !.progress = Append(@, Checking(s.pollCount + 1)),
                   !.timer = PollIntervalMs,
                   !.pc = "sleep"]
    ELSE Finalize(s, key)

\* The loop from its test to the next suspension (the timer) or to the end.
PollLoop(s, key) ==
    IF LoopCondition(s.operation)
    THEN [s EXCEPT !.pollCount = @ + 1,
                   !.progress = Append(@, Checking(s.pollCount + 1)),
                   !.timer = PollIntervalMs,
                   !.pc = "sleep"]
    ELSE Finalize(s, key)

\* Mutant: the first message is emitted before the client is created.
GenerateVideoStartLateCheck(s, key) ==
    IF Falsy(key)
    THEN Thrown([s EXCEPT !.progress = Append(@, Preparing)], "ApiKeyMissing")
    ELSE [s EXCEPT !.ai = key,
                   !.progress = Append(@, Preparing),
                   !.reads = @ + 1,
                   !.pc = "readStart"]

\* The call up to the first await.
GenerateVideoStart(s, key) ==
    IF GetAiClientThrows(key)
    THEN Thrown(s, "ApiKeyMissing")
    ELSE [s EXCEPT !.ai = key,
                   !.progress = Append(@, Preparing),
                   !.reads = @ + 1,
                   !.pc = "readStart"]

\* The start frame's read has ended; on success the end frame's read starts.
AfterStartFrame(s, outcome) ==
    IF outcome = "load"
    THEN [s EXCEPT !.reads = @ + 1, !.pc = "readEnd"]
    ELSE Thrown(s, ReadError(outcome))

\* Mutant: when the end frame cannot be read, the start frame is submitted on
\* its own before the error surfaces.
AfterEndFrameSubmitsStart(s, outcome) ==
    IF outcome = "load"
    THEN [s EXCEPT !.progress = Append(@, Initiating),
                   !.calls = Append(@, "generateVideos"),
                   !.pc = "submit"]
    ELSE Thrown([s EXCEPT !.progress = Append(@, Initiating),
                          !.calls = Append(@, "generateVideos")],
                ReadError(outcome))

\* Mutant: "in progress" is announced before the submission has returned.
AfterEndFrameEager(s, outcome) ==
    IF outcome = "load"
    THEN [s EXCEPT !.progress = @ \o <<Initiating, InProgress>>,
                   !.calls = Append(@, "generateVideos"),
                   !.pc = "submit"]
    ELSE Thrown(s, ReadError(outcome))

\* The end frame's read has ended; on success the job is submitted.
AfterEndFrame(s, outcome) ==
    IF outcome = "load"
    THEN [s EXCEPT !.progress = Append(@, Initiating),
                   !.calls = Append(@, "generateVideos"),
                   !.pc = "submit"]
    ELSE Thrown(s, ReadError(outcome))

\* Mutant: the attempt counter starts at 1.
AfterSubmitCountFromOne(s, snapshot, key) ==
    PollLoop([s EXCEPT !.operation = snapshot,
                       !.fetched = Append(@, snapshot),
                       !.progress = Append(@, InProgress),
                       !.pollCount = 1], key)

\* generateVideos has returned the first snapshot.
AfterSubmit(s, snapshot, key) ==
    PollLoop([s EXCEPT !.operation = snapshot,
                       !.fetched = Append(@, snapshot),
                       !.progress = Append(@, InProgress),
                       !.pollCount = 0], key)

\* Mutant: every re-fetch is made with the snapshot the submission returned.
AfterSleepFirstSnapshot(s) ==
    [s EXCEPT !.calls = Append(@, "getVideosOperation"),
              !.args = Append(@, s.fetched[1]),
              !.waited = @ + s.timer,
              !.timer = 0,
              !.pc = "poll"]

\* The 10 s timer has fired: the status is fetched again, with the current snapshot.
AfterSleep(s) ==
    [s EXCEPT !.calls = Append(@, "getVideosOperation"),
              !.args = Append(@, s.operation),
              !.waited = @ + s.timer,
              !.timer = 0,
              !.pc = "poll"]

\* Mutant: "in progress" is announced again on every poll.
AfterPollAnnounces(s, snapshot, key) ==
    PollLoop([s EXCEPT !.operation = snapshot,
                       !.fetched = Append(@, snapshot),
                       !.progress = Append(@, InProgress)], key)

\* getVideosOperation has returned a fresh snapshot, which replaces the old one.
AfterPoll(s, snapshot, key) ==
    PollLoop([s EXCEPT !.operation = snapshot,
                       !.fetched = Append(@, snapshot)], key)

\* The snapshots the remote service may answer with.
Answers(s) ==
    DoneSnapshots \cup (IF Len(s.fetched) < MaxPolls THEN PendingSnapshots ELSE {})

GenerateVideoCall(i) ==
    /\ inv[i].pc = "idle"
    /\ inv' = [inv EXCEPT ![i] = GenerateVideoStart([Idle EXCEPT !.fn = "generateVideo"], env)]
    /\ UNCHANGED env

StartFrameRead(i) ==
    /\ inv[i].pc = "readStart"
    /\ \E outcome \in ReadOutcomes :
         inv' = [inv EXCEPT ![i] = AfterStartFrame(inv[i], outcome)]
    /\ UNCHANGED env

EndFrameRead(i) ==
    /\ inv[i].pc = "readEnd"
    /\ \E outcome \in ReadOutcomes :
         inv' = [inv EXCEPT ![i] = AfterEndFrame(inv[i], outcome)]
    /\ UNCHANGED env

SubmitReturns(i) ==
    /\ inv[i].pc = "submit"
    /\ \E snapshot \in Answers(inv[i]) :
         inv' = [inv EXCEPT ![i] = AfterSubmit(inv[i], snapshot, env)]
    /\ UNCHANGED env

SubmitFails(i) ==
    /\ inv[i].pc = "submit"
    /\ inv' = [inv EXCEPT ![i] = Thrown(inv[i], "RemoteServiceError")]
    /\ UNCHANGED env

TimerFires(i) ==
    /\ inv[i].pc = "sleep"
    /\ inv' = [inv EXCEPT ![i] = AfterSleep(inv[i])]
    /\ UNCHANGED env

PollReturns(i) ==
    /\ inv[i].pc = "poll"
    /\ \E snapshot \in Answers(inv[i]) :
         inv' = [inv EXCEPT ![i] = AfterPoll(inv[i], snapshot, env)]
    /\ UNCHANGED env

\* Mutant: a failed poll is retried.
PollFailsRetry(i) ==
    /\ inv[i].pc = "poll"
    /\ Len(inv[i].calls) <= MaxPolls + 1
    /\ inv' = [inv EXCEPT ![i] = [inv[i] EXCEPT !.calls = Append(@, "getVideosOperation"),
                                                 !.args = Append(@, inv[i].operation)]]
    /\ UNCHANGED env

PollFails(i) ==
    /\ inv[i].pc = "poll"
    /\ inv' = [inv EXCEPT ![i] = Thrown(inv[i], "RemoteServiceError")]
    /\ UNCHANGED env

(***************************************************************************)
(* editImage.                                                              *)
(***************************************************************************)
\* The call up to the first await.
EditImageStart(s, key) ==
    IF GetAiClientThrows(key)
    THEN Thrown(s, "ApiKeyMissing")
    ELSE [s EXCEPT !.ai = key, !.reads = @ + 1, !.pc = "editRead"]

\* The image's read has ended; on success the one remote call is made.
AfterEditRead(s, outcome) ==
    IF outcome = "load"
    THEN [s EXCEPT !.calls = Append(@, "generateContent"), !.pc = "editCall"]
    ELSE Thrown(s, ReadError(outcome))

\* The index of the first part with a truthy inlineData, from k on; 0 if none.
RECURSIVE FirstInlineData(_, _)
FirstInlineData(parts, k) ==
    IF k > Len(parts) THEN 0
    ELSE IF ~Falsy(parts[k].inlineData) THEN k
    ELSE FirstInlineData(parts, k + 1)

\* for (const part of response.candidates[0].content.parts) ... ; throw
ScanResponse(s, response) ==
    IF IsUndefined(response.candidates) THEN Thrown(s, "TypeError")
    ELSE IF Len(response.candidates.v) = 0 THEN Thrown(s, "TypeError")
    ELSE IF IsUndefined(response.candidates.v[1].content) THEN Thrown(s, "TypeError")
    ELSE IF IsUndefined(response.candidates.v[1].content.parts) THEN Thrown(s, "TypeError")
    ELSE LET parts == response.candidates.v[1].content.parts.v
             k == FirstInlineData(parts, 1)
         IN  IF k = 0
             THEN Thrown(s, "NoImageData")
             ELSE Returned(s, parts[k].inlineData.data)

EditImageCall(i) ==
    /\ inv[i].pc = "idle"
    /\ inv' = [inv EXCEPT ![i] = EditImageStart([Idle EXCEPT !.fn = "editImage"], env)]
    /\ UNCHANGED env

EditRead(i) ==
    /\ inv[i].pc = "editRead"
    /\ \E outcome \in ReadOutcomes :
         inv' = [inv EXCEPT ![i] = AfterEditRead(inv[i], outcome)]
    /\ UNCHANGED env

EditReturns(i) ==
    /\ inv[i].pc = "editCall"
    /\ \E response \in EditResponses :
         inv' = [inv EXCEPT ![i] = ScanResponse([inv[i] EXCEPT !.fetched = Append(@, response)],
                                                response)]
    /\ UNCHANGED env

EditFails(i) ==
    /\ inv[i].pc = "editCall"
    /\ inv' = [inv EXCEPT ![i] = Thrown(inv[i], "RemoteServiceError")]
    /\ UNCHANGED env

(***************************************************************************)
(* The environment.                                                        *)
(***************************************************************************)
\* The caller has received the outcome; the slot is free for the next call.
CallerResumes(i) ==
    /\ inv[i].pc \in {"returned", "thrown"}
    /\ inv' = [inv EXCEPT ![i] = Idle]
    /\ UNCHANGED env

\* The process-wide credential is selected, replaced or cleared.
EnvSetApiKey ==
    /\ \E k \in EnvValues \ {env} : env' = k
    /\ UNCHANGED inv

Next ==
    \/ \E i \in DOMAIN inv : GenerateVideoCall(i) /\ UNCHANGED outside
    \/ \E i \in DOMAIN inv : StartFrameRead(i) /\ UNCHANGED outside
    \/ \E i \in DOMAIN inv : EndFrameRead(i) /\ UNCHANGED outside
    \/ \E i \in DOMAIN inv : SubmitReturns(i) /\ UNCHANGED outside
    \/ \E i \in DOMAIN inv : SubmitFails(i) /\ UNCHANGED outside
    \/ \E i \in DOMAIN inv : TimerFires(i) /\ UNCHANGED outside
    \/ \E i \in DOMAIN inv : PollReturns(i) /\ UNCHANGED outside
    \/ \E i \in DOMAIN inv : PollFails(i) /\ UNCHANGED outside
    \/ \E i \in DOMAIN inv : EditImageCall(i) /\ UNCHANGED outside
    \/ \E i \in DOMAIN inv : EditRead(i) /\ UNCHANGED outside
    \/ \E i \in DOMAIN inv : EditReturns(i) /\ UNCHANGED outside
    \/ \E i \in DOMAIN inv : EditFails(i) /\ UNCHANGED outside
    \/ \E i \in DOMAIN inv : CallerResumes(i) /\ UNCHANGED outside
    \/ EnvSetApiKey /\ UNCHANGED outside

Spec == Init /\ [][Next]_vars

\* The timer fires and every remote call is answered or fails: the event loop
\* runs every callback that is due.
FairSpec ==
    /\ Spec
    /\ \A i \in {1} :
         /\ WF_vars((TimerFires(i)) /\ UNCHANGED outside)
         /\ WF_vars((SubmitReturns(i) \/ SubmitFails(i)) /\ UNCHANGED outside)
         /\ WF_vars((PollReturns(i) \/ PollFails(i)) /\ UNCHANGED outside)

(***************************************************************************)
(* A remote service that never finishes the job and never fails: every     *)
(* snapshot it returns reports done == false.                              *)
(***************************************************************************)
SubmitReturnsPending(i) ==
    /\ inv[i].pc = "submit"
    /\ \E snapshot \in Answers(inv[i]) \cap PendingSnapshots :
         inv' = [inv EXCEPT ![i] = AfterSubmit(inv[i], snapshot, env)]
    /\ UNCHANGED env

PollReturnsPending(i) ==
    /\ inv[i].pc = "poll"
    /\ \E snapshot \in Answers(inv[i]) \cap PendingSnapshots :
         inv' = [inv EXCEPT ![i] = AfterPoll(inv[i], snapshot, env)]
    /\ UNCHANGED env

NeverDoneNext ==
    \/ \E i \in DOMAIN inv : GenerateVideoCall(i) /\ UNCHANGED outside
    \/ \E i \in DOMAIN inv : StartFrameRead(i) /\ UNCHANGED outside
    \/ \E i \in DOMAIN inv : EndFrameRead(i) /\ UNCHANGED outside
    \/ \E i \in DOMAIN inv : SubmitReturnsPending(i) /\ UNCHANGED outside
    \/ \E i \in DOMAIN inv : TimerFires(i) /\ UNCHANGED outside
    \/ \E i \in DOMAIN inv : PollReturnsPending(i) /\ UNCHANGED outside
    \/ \E i \in DOMAIN inv : CallerResumes(i) /\ UNCHANGED outside
    \/ EnvSetApiKey /\ UNCHANGED outside

NeverDoneSpec ==
    /\ Init
    /\ [][NeverDoneNext]_vars
    /\ \A i \in {1} :
         /\ WF_vars((TimerFires(i)) /\ UNCHANGED outside)
         /\ WF_vars((SubmitReturnsPending(i)) /\ UNCHANGED outside)
         /\ WF_vars((PollReturnsPending(i)) /\ UNCHANGED outside)

\* fileToGenerativePart alone, over every file.
EncoderNext ==
    \/ FileToGenerativePartCall
    \/ ReaderLoads
    \/ ReaderAborts
    \/ ReaderErrors
    \/ ReaderLoadEndAfterError
    \/ EncoderCallerResumes

EncoderSpec == Init /\ [][EncoderNext]_vars

(***************************************************************************)
(* Two invocations of generateVideo in flight at once.  The service names  *)
(* the job of a submission after the invocation that submitted it, every   *)
(* snapshot carries the name of its job, and a re-fetch is answered with a *)
(* snapshot of the job named by the operation it was given.                *)
(***************************************************************************)
Invocations == {1, 2}

Named(snapshot, job) == [name |-> job] @@ snapshot

\* The answers of the service in the two-invocation runs.
JobAnswers(s) ==
    {DoneWithUri, DoneNoUri} \cup (IF Len(s.fetched) < MaxPolls THEN {PendingBare} ELSE {})

SubmitReturnsJob(i) ==
    /\ inv[i].pc = "submit"
    /\ \E snapshot \in JobAnswers(inv[i]) :
         inv' = [inv EXCEPT ![i] = AfterSubmit(inv[i], Named(snapshot, i), env)]
    /\ UNCHANGED env

\* Mutant: operation is a variable of the module, shared by the invocations.
PollReturnsJobShared(i) ==
    /\ inv[i].pc = "poll"
    /\ \E snapshot \in JobAnswers(inv[i]) :
         LET answer == Named(snapshot, inv[i].args[Len(inv[i].args)].name) IN
         inv' = [j \in DOMAIN inv |->
                    IF j = i THEN AfterPoll(inv[i], answer, env)
                    ELSE IF inv[j].pc \in {"sleep", "poll"}
                         THEN [inv[j] EXCEPT !.operation = answer]
                         ELSE inv[j]]
    /\ UNCHANGED env

PollReturnsJob(i) ==
    /\ inv[i].pc = "poll"
    /\ \E snapshot \in JobAnswers(inv[i]) :
         inv' = [inv EXCEPT ![i] =
                    AfterPoll(inv[i], Named(snapshot, inv[i].args[Len(inv[i].args)].name), env)]
    /\ UNCHANGED env

ConcurrentInit ==
    /\ env \in EnvValues
    /\ inv = [i \in Invocations |-> Idle]
    /\ enc = NotEncoding
    /\ aistudio = AiStudio(FALSE)
    /\ AppInitial

ConcurrentNext ==
    \/ \E i \in DOMAIN inv : GenerateVideoCall(i) /\ UNCHANGED outside
    \/ \E i \in DOMAIN inv : StartFrameRead(i) /\ UNCHANGED outside
    \/ \E i \in DOMAIN inv : EndFrameRead(i) /\ UNCHANGED outside
    \/ \E i \in DOMAIN inv : SubmitReturnsJob(i) /\ UNCHANGED outside
    \/ \E i \in DOMAIN inv : SubmitFails(i) /\ UNCHANGED outside
    \/ \E i \in DOMAIN inv : TimerFires(i) /\ UNCHANGED outside
    \/ \E i \in DOMAIN inv : PollReturnsJob(i) /\ UNCHANGED outside
    \/ \E i \in DOMAIN inv : PollFails(i) /\ UNCHANGED outside
    \/ \E i \in DOMAIN inv : CallerResumes(i) /\ UNCHANGED outside

ConcurrentSpec == ConcurrentInit /\ [][ConcurrentNext]_vars

(***************************************************************************)
(* The application: App mounts one component at a time; the component's    *)
(* handlers start the invocations and receive their messages and outcome.  *)
(***************************************************************************)
\* The invocations the application may have in flight.
AppInvocations == {1, 2}

\* text.trim(), for a text kept as a sequence of characters and words.
RECURSIVE TrimStart(_)
TrimStart(text) ==
    IF text # << >> /\ text[1] = " " THEN TrimStart(SubSeq(text, 2, Len(text))) ELSE text

RECURSIVE TrimEnd(_)
TrimEnd(text) ==
    IF text # << >> /\ text[Len(text)] = " "
    THEN TrimEnd(SubSeq(text, 1, Len(text) - 1))
    ELSE text

Trim(text) == TrimEnd(TrimStart(text))

\* text.includes(part), for a part that is one word of the text.
Includes(text, part) == \E k \in 1..Len(text) : text[k] = part

Prompts == {<< >>, <<" ">>, <<"a flower blooming">>}

\* What a remote call may reject with in the application: some failure, or
\* one whose message says the requested entity was not found.
RemoteErrors == {"RemoteServiceError", "EntityNotFound"}

EntityNotFoundText == "Requested entity was not found"

\* e instanceof Error: the error event of a FileReader is not an Error.
IsError(err) == err # "ReadErrorEvent"

\* e.message
ErrorMessage(err) ==
    CASE err = "ApiKeyMissing" ->
            <<"API_KEY is not available in process.env. Please select an API key.">>
      [] err = "ReadFailed" -> <<"Failed to read file as base64 string.">>
      [] err = "NoDownloadLink" ->
            <<"Video generation completed, but no download link was found.">>
      [] err = "NoImageData" -> <<"No image data found in the API response.">>
      [] err = "TypeError" -> <<"Cannot read properties of undefined">>
      [] err = "EntityNotFound" -> <<"404 ", EntityNotFoundText, ".">>
      [] OTHER -> <<"The service is unavailable.">>

UnknownErrorText == <<"An unknown error occurred.">>

\* The answers of the service in the application's runs.
AppAnswers(s) ==
    {DoneWithUri, DoneNoUri} \cup (IF Len(s.fetched) < MaxPolls THEN {PendingBare} ELSE {})

\* The least invocation that is free.
FreeInvocation(i) ==
    /\ inv[i].pc = "idle"
    /\ \A j \in DOMAIN inv : inv[j].pc = "idle" => i <= j

\* App: setMode; the component of the other mode is unmounted and the one of
\* the new mode mounted, with its initial state and its mount effect started.
AppSetMode ==
    /\ \E m \in {"image", "video"} \ {mode} :
         /\ mode' = m
         /\ vg' = IF m = "video"
                  THEN [VideoGeneratorInitial EXCEPT !.mounted = TRUE,
                                                     !.checking = aistudio.present]
                  ELSE VideoGeneratorInitial
         /\ ie' = IF m = "image"
                  THEN [ImageEditorInitial EXCEPT !.mounted = TRUE]
                  ELSE ImageEditorInitial
    /\ UNCHANGED <<env, inv, enc, aistudio>>

(***************************************************************************)
(* VideoGenerator.                                                         *)
(***************************************************************************)
VideoMissingInput(v) ==
    v.startFrame = Null \/ v.endFrame = Null \/ Trim(v.prompt) = << >>

\* isButtonDisabled
VideoIsButtonDisabled(v) ==
    v.isLoading \/ VideoMissingInput(v) \/ ~v.isKeySelected

\* checkApiKey: hasSelectedApiKey() has answered.
VideoCheckApiKeyReturns ==
    /\ vg.mounted
    /\ vg.checking
    /\ \E hasKey \in BOOLEAN :
         vg' = [vg EXCEPT !.checking = FALSE, !.isKeySelected = hasKey]
    /\ UNCHANGED <<env, inv, enc, mode, aistudio, ie>>

VideoSelectStartFrame ==
    /\ vg.mounted
    /\ vg' = [vg EXCEPT !.startFrame = Str(<<"start.png">>)]
    /\ UNCHANGED <<env, inv, enc, mode, aistudio, ie>>

VideoSelectEndFrame ==
    /\ vg.mounted
    /\ vg' = [vg EXCEPT !.endFrame = Str(<<"end.png">>)]
    /\ UNCHANGED <<env, inv, enc, mode, aistudio, ie>>

\* The textarea is enabled once both frames are there.
VideoSetPrompt ==
    /\ vg.mounted
    /\ vg.startFrame # Null /\ vg.endFrame # Null
    /\ \E text \in Prompts \ {vg.prompt} : vg' = [vg EXCEPT !.prompt = text]
    /\ UNCHANGED <<env, inv, enc, mode, aistudio, ie>>

\* handleSelectKey up to its await; the button is rendered while no key is
\* selected, and the dialog is opened once at a time.
VideoHandleSelectKey ==
    /\ vg.mounted
    /\ ~vg.isKeySelected
    /\ aistudio.present
    /\ ~aistudio.dialog
    /\ vg' = [vg EXCEPT !.selecting = TRUE]
    /\ aistudio' = [aistudio EXCEPT !.dialog = TRUE]
    /\ UNCHANGED <<env, inv, enc, mode, ie>>

\* handleSelectKey after openSelectKey() has resolved, whatever the user did.
AfterOpenSelectKey(v, picked) ==
    IF v.selecting
    THEN [v EXCEPT !.selecting = FALSE, !.isKeySelected = TRUE, !.error = Null]
    ELSE v

\* The dialog closes: the user has picked a key, which the host page puts in
\* process.env.API_KEY, or has dismissed the dialog.
OpenSelectKeyReturns ==
    /\ aistudio.dialog
    /\ \E picked \in BOOLEAN :
         /\ env' = IF picked THEN Str(<<"K1">>) ELSE env
         /\ aistudio' = [aistudio EXCEPT !.dialog = FALSE,
                                         !.staleKey = IF vg.selecting THEN FALSE ELSE @]
         /\ vg' = AfterOpenSelectKey(vg, picked)
    /\ UNCHANGED <<inv, enc, mode, ie>>

\* onProgress = setLoadingMessage of the component that awaits invocation i.
VideoOnProgress(v, i, before, after) ==
    IF v.gen = i /\ Len(after.progress) > Len(before.progress)
    THEN [v EXCEPT !.loadingMessage = after.progress[Len(after.progress)]]
    ELSE v

\* Mutant: the previous video is kept when a new generation starts.
VideoStartGenerationKeepsUrl ==
    \E i \in DOMAIN inv :
        /\ FreeInvocation(i)
        /\ GenerateVideoCall(i)
        /\ vg' = VideoOnProgress(
                    [vg EXCEPT !.isLoading = TRUE,
                               !.error = Null,
                               !.loadingMessage = Message("Starting video generation...", 0),
                               !.gen = i],
                    i, Idle, inv'[i])

\* handleGenerateClick from setIsLoading(true) to its await.
VideoStartGeneration ==
    \E i \in DOMAIN inv :
        /\ FreeInvocation(i)
        /\ GenerateVideoCall(i)
        /\ vg' = VideoOnProgress(
                    [vg EXCEPT !.isLoading = TRUE,
                               !.error = Null,
                               !.generatedVideoUrl = Null,
                               !.loadingMessage = Message("Starting video generation...", 0),
                               !.gen = i],
                    i, Idle, inv'[i])

\* Mutant: the handler does not look at isKeySelected.
VideoGenerateHandlerNoKeyCheck ==
    /\ IF VideoMissingInput(vg)
       THEN /\ vg' = [vg EXCEPT !.error =
                         Str(<<"Please provide a start frame, an end frame, and a prompt.">>)]
            /\ UNCHANGED <<env, inv>>
       ELSE VideoStartGeneration
    /\ UNCHANGED <<enc, mode, aistudio, ie>>

\* handleGenerateClick up to its await.
VideoGenerateHandler ==
    /\ IF VideoMissingInput(vg)
       THEN /\ vg' = [vg EXCEPT !.error =
                         Str(<<"Please provide a start frame, an end frame, and a prompt.">>)]
            /\ UNCHANGED <<env, inv>>
       ELSE IF ~vg.isKeySelected
       THEN /\ vg' = [vg EXCEPT !.error =
                         Str(<<"Please select an API key before generating a video.">>)]
            /\ UNCHANGED <<env, inv>>
       ELSE VideoStartGeneration
    /\ UNCHANGED <<enc, mode, aistudio, ie>>

\* A click on the button, which is enabled unless isButtonDisabled.
VideoHandleGenerateClick ==
    /\ vg.mounted
    /\ ~VideoIsButtonDisabled(vg)
    /\ VideoGenerateHandler

\* handleGenerateClick run whatever the button's state, in any state of the
\* component in which it does not already await a generation.
VideoHandlerRuns ==
    /\ vg.mounted
    /\ ~vg.isLoading
    /\ VideoGenerateHandler

\* Mutant: the loading state is reset only when the generation succeeded.
VideoAfterGenerateNoFinally(v, s) ==
    IF s.pc = "returned"
    THEN [v EXCEPT !.generatedVideoUrl = s.result,
                   !.isLoading = FALSE,
                   !.loadingMessage = Message("", 0),
                   !.gen = 0]
    ELSE LET errorMessage == IF IsError(s.err) THEN ErrorMessage(s.err) ELSE UnknownErrorText
             notFound == Includes(errorMessage, EntityNotFoundText)
         IN  [v EXCEPT !.error = Str(IF notFound
                                     THEN <<"API Key error. Please try selecting your API key again.">>
                                     ELSE errorMessage),
                       !.isKeySelected = IF notFound THEN FALSE ELSE @,
                       !.gen = 0]

\* handleGenerateClick after its await: try, catch, finally.
VideoAfterGenerate(v, s) ==
    IF s.pc = "returned"
    THEN [v EXCEPT !.generatedVideoUrl = s.result,
                   !.isLoading = FALSE,
                   !.loadingMessage = Message("", 0),
                   !.gen = 0]
    ELSE LET errorMessage == IF IsError(s.err) THEN ErrorMessage(s.err) ELSE UnknownErrorText
             notFound == Includes(errorMessage, EntityNotFoundText)
         IN  [v EXCEPT !.error = Str(IF notFound
                                     THEN <<"API Key error. Please try selecting your API key again.">>
                                     ELSE errorMessage),
                       !.isKeySelected = IF notFound THEN FALSE ELSE @,
                       !.isLoading = FALSE,
                       !.loadingMessage = Message("", 0),
                       !.gen = 0]

\* The steps of an invocation of generateVideo inside the application.
VideoStartFrameRead(i) ==
    /\ inv[i].fn = "generateVideo"
    /\ StartFrameRead(i)
    /\ vg' = VideoOnProgress(vg, i, inv[i], inv'[i])
    /\ UNCHANGED <<enc, mode, aistudio, ie>>

VideoEndFrameRead(i) ==
    /\ inv[i].fn = "generateVideo"
    /\ EndFrameRead(i)
    /\ vg' = VideoOnProgress(vg, i, inv[i], inv'[i])
    /\ UNCHANGED <<enc, mode, aistudio, ie>>

VideoSubmitReturns(i) ==
    /\ inv[i].pc = "submit"
    /\ \E snapshot \in AppAnswers(inv[i]) :
         inv' = [inv EXCEPT ![i] = AfterSubmit(inv[i], snapshot, env)]
    /\ vg' = VideoOnProgress(vg, i, inv[i], inv'[i])
    /\ UNCHANGED <<env, enc, mode, aistudio, ie>>

VideoTimerFires(i) ==
    /\ TimerFires(i)
    /\ UNCHANGED <<enc, mode, aistudio, vg, ie>>

VideoPollReturns(i) ==
    /\ inv[i].pc = "poll"
    /\ \E snapshot \in AppAnswers(inv[i]) :
         inv' = [inv EXCEPT ![i] = AfterPoll(inv[i], snapshot, env)]
    /\ vg' = VideoOnProgress(vg, i, inv[i], inv'[i])
    /\ UNCHANGED <<env, enc, mode, aistudio, ie>>

\* The submission or a status re-fetch is rejected.
VideoRemoteFails(i) ==
    /\ inv[i].pc \in {"submit", "poll"}
    /\ \E err \in RemoteErrors : inv' = [inv EXCEPT ![i] = Thrown(inv[i], err)]
    /\ UNCHANGED <<env, enc, mode, aistudio, vg, ie>>

\* The promise of invocation i has settled and the handler that awaits it
\* runs on; the setters of a component that has been unmounted do nothing.
VideoGenerateSettles(i) ==
    /\ inv[i].fn = "generateVideo"
    /\ CallerResumes(i)
    /\ vg' = IF vg.gen = i THEN VideoAfterGenerate(vg, inv[i]) ELSE vg
    /\ aistudio' = IF vg.gen = i /\ inv[i].pc = "thrown"
                      /\ IsError(inv[i].err)
                      /\ Includes(ErrorMessage(inv[i].err), EntityNotFoundText)
                   THEN [aistudio EXCEPT !.staleKey = TRUE]
                   ELSE aistudio
    /\ UNCHANGED <<enc, mode, ie>>

VideoInit ==
    /\ env \in {Undefined, Str(<<"K1">>)}
    /\ inv = [i \in AppInvocations |-> Idle]
    /\ enc = NotEncoding
    /\ \E present \in BOOLEAN : aistudio = AiStudio(present)
    /\ AppInitial

VideoNext ==
    \/ AppSetMode
    \/ VideoCheckApiKeyReturns
    \/ VideoSelectStartFrame
    \/ VideoSelectEndFrame
    \/ VideoSetPrompt
    \/ VideoHandleSelectKey
    \/ OpenSelectKeyReturns
    \/ VideoHandleGenerateClick
    \/ \E i \in DOMAIN inv : VideoStartFrameRead(i)
    \/ \E i \in DOMAIN inv : VideoEndFrameRead(i)
    \/ \E i \in DOMAIN inv : VideoSubmitReturns(i)
    \/ \E i \in DOMAIN inv : VideoTimerFires(i)
    \/ \E i \in DOMAIN inv : VideoPollReturns(i)
    \/ \E i \in DOMAIN inv : VideoRemoteFails(i)
    \/ \E i \in DOMAIN inv : VideoGenerateSettles(i)

VideoSpec == VideoInit /\ [][VideoNext]_vars

\* The VideoGenerator with its handler run also where the button is disabled.
VideoHandlerNext ==
    \/ AppSetMode
    \/ VideoCheckApiKeyReturns
    \/ VideoSelectStartFrame
    \/ VideoSelectEndFrame
    \/ VideoSetPrompt
    \/ VideoHandleSelectKey
    \/ OpenSelectKeyReturns
    \/ VideoHandlerRuns
    \/ \E i \in DOMAIN inv : VideoStartFrameRead(i)
    \/ \E i \in DOMAIN inv : VideoEndFrameRead(i)
    \/ \E i \in DOMAIN inv : VideoSubmitReturns(i)
    \/ \E i \in DOMAIN inv : VideoTimerFires(i)
    \/ \E i \in DOMAIN inv : VideoPollReturns(i)
    \/ \E i \in DOMAIN inv : VideoRemoteFails(i)
    \/ \E i \in DOMAIN inv : VideoGenerateSettles(i)

VideoHandlerSpec == VideoInit /\ [][VideoHandlerNext]_vars

(***************************************************************************)
(* ImageEditor.                                                            *)
(***************************************************************************)
ImageFiles == {Str(<<"first.png">>), Str(<<"second.png">>)}

EditTargets == {"image", "subject", "background"}

\* The answers of generateContent in the application's runs.
AppEditResponses == {RespNoCandidates, RespTextOnly, RespTextThenImage}

\* isButtonDisabled
ImageIsButtonDisabled(e) ==
    e.isLoading \/ e.originalImage = Null \/ Trim(e.prompt) = << >>

\* finalPrompt
FinalPrompt(prompt, editTarget) ==
    CASE editTarget = "subject" -> <<"For the main subject(s): ">> \o prompt
      [] editTarget = "background" -> <<"For the background: ">> \o prompt
      [] OTHER -> prompt

\* handleImageSelect
HandleImageSelect(e, file) ==
    [e EXCEPT !.originalImage = file,
              !.editedImage = Null,
              !.editedOf = Null,
              !.error = Null]

\* The Uploader is never disabled.
ImageSelect ==
    /\ ie.mounted
    /\ \E file \in ImageFiles \ {ie.originalImage} : ie' = HandleImageSelect(ie, file)
    /\ UNCHANGED <<env, inv, enc, mode, aistudio, vg>>

\* The textarea and the style presets, enabled once an image is there.
ImageSetPrompt ==
    /\ ie.mounted
    /\ ie.originalImage # Null
    /\ \E text \in Prompts \ {ie.prompt} : ie' = [ie EXCEPT !.prompt = text]
    /\ UNCHANGED <<env, inv, enc, mode, aistudio, vg>>

ImageSetEditTarget ==
    /\ ie.mounted
    /\ ie.originalImage # Null
    /\ \E target \in EditTargets \ {ie.editTarget} : ie' = [ie EXCEPT !.editTarget = target]
    /\ UNCHANGED <<env, inv, enc, mode, aistudio, vg>>

\* handleGenerateClick up to its await.
ImageHandleGenerateClick ==
    /\ ie.mounted
    /\ ~ImageIsButtonDisabled(ie)
    /\ IF ie.originalImage = Null \/ Trim(ie.prompt) = << >>
       THEN /\ ie' = [ie EXCEPT !.error = Str(<<"Please upload an image and enter a prompt.">>)]
            /\ UNCHANGED <<env, inv>>
       ELSE \E i \in DOMAIN inv :
               /\ FreeInvocation(i)
               /\ EditImageCall(i)
               /\ ie' = [ie EXCEPT !.isLoading = TRUE,
                                   !.error = Null,
                                   !.editedImage = Null,
                                   !.editedOf = Null,
                                   !.editing = [file |-> ie.originalImage,
                                                prompt |-> FinalPrompt(ie.prompt, ie.editTarget)],
                                   !.gen = i]
    /\ UNCHANGED <<enc, mode, aistudio, vg>>

\* handleGenerateClick after its await: try, catch, finally.
ImageAfterEdit(e, s) ==
    IF s.pc = "returned"
    THEN [e EXCEPT !.editedImage = s.result,
                   !.editedOf = e.editing.file,
                   !.isLoading = FALSE,
                   !.editing = Null,
                   !.gen = 0]
    ELSE [e EXCEPT !.error = Str(IF IsError(s.err) THEN ErrorMessage(s.err) ELSE UnknownErrorText),
                   !.isLoading = FALSE,
                   !.editing = Null,
                   !.gen = 0]

\* The steps of an invocation of editImage inside the application.
ImageEditRead(i) ==
    /\ EditRead(i)
    /\ UNCHANGED outside

ImageEditReturns(i) ==
    /\ inv[i].pc = "editCall"
    /\ \E response \in AppEditResponses :
         inv' = [inv EXCEPT ![i] = ScanResponse([inv[i] EXCEPT !.fetched = Append(@, response)],
                                                response)]
    /\ UNCHANGED <<env, enc, mode, aistudio, vg, ie>>

ImageEditFails(i) ==
    /\ EditFails(i)
    /\ UNCHANGED outside

\* The promise of invocation i has settled and the handler that awaits it
\* runs on; the setters of a component that has been unmounted do nothing.
ImageEditSettles(i) ==
    /\ inv[i].fn = "editImage"
    /\ CallerResumes(i)
    /\ ie' = IF ie.gen = i THEN ImageAfterEdit(ie, inv[i]) ELSE ie
    /\ UNCHANGED <<enc, mode, aistudio, vg>>

ImageInit ==
    /\ env \in {Undefined, Str(<<"K1">>)}
    /\ inv = [i \in AppInvocations |-> Idle]
    /\ enc = NotEncoding
    /\ aistudio = AiStudio(FALSE)
    /\ AppInitial

ImageNext ==
    \/ AppSetMode
    \/ ImageSelect
    \/ ImageSetPrompt
    \/ ImageSetEditTarget
    \/ ImageHandleGenerateClick
    \/ \E i \in DOMAIN inv : ImageEditRead(i)
    \/ \E i \in DOMAIN inv : ImageEditReturns(i)
    \/ \E i \in DOMAIN inv : ImageEditFails(i)
    \/ \E i \in DOMAIN inv : ImageEditSettles(i)

ImageSpec == ImageInit /\ [][ImageNext]_vars

(***************************************************************************)
(* What the properties speak of.                                           *)
(***************************************************************************)
IsGenerateVideo(i) == inv[i].fn = "generateVideo"
IsEditImage(i) == inv[i].fn = "editImage"

Last(seq) == seq[Len(seq)]

IsChecking(m) == m.text = CheckingText
CheckingMessages(progress) == SelectSeq(progress, IsChecking)

Occurrences(progress, m) == Cardinality({k \in 1..Len(progress) : progress[k] = m})

\* The positions of the snapshots that report done == false / done == true.
PendingSeen(fetched) == {k \in 1..Len(fetched) : ~fetched[k].done}
DoneSeen(fetched) == {k \in 1..Len(fetched) : fetched[k].done}

NoCredential == {Undefined, Str(<< >>)}

(***************************************************************************)
(* C1.  A status re-fetch is issued only while the latest snapshot reports *)
(* done == false: a snapshot with done == true is the last one fetched,    *)
(* and once it has been observed the invocation has ended, no remote call  *)
(* beyond the ones already answered has been issued, no timer is pending   *)
(* and no "checking status" message beyond one per pending snapshot has    *)
(* been emitted.                                                           *)
(***************************************************************************)
C1_NoPollAfterDone ==
    \A i \in DOMAIN inv : IsGenerateVideo(i) =>
        LET s == inv[i] IN
        /\ \A k \in DoneSeen(s.fetched) : k = Len(s.fetched)
        /\ s.pc \in {"sleep", "poll"} => DoneSeen(s.fetched) = {}
        /\ s.pc = "poll" => Len(s.calls) = Len(s.fetched) + 1
        /\ DoneSeen(s.fetched) # {} =>
              /\ s.pc \in {"returned", "thrown"}
              /\ Len(s.calls) = Len(s.fetched)
              /\ Len(CheckingMessages(s.progress)) = Len(s.fetched) - 1

C1_Witness ==
    \E i \in DOMAIN inv :
        /\ IsGenerateVideo(i)
        /\ Len(inv[i].fetched) = 3
        /\ Last(inv[i].fetched).done
        /\ inv[i].pc = "returned"

C2_LoopStaysWhilePending ==
    \A i \in DOMAIN inv :
        (IsGenerateVideo(i) /\ inv[i].fetched # << >> /\ ~Last(inv[i].fetched).done)
            => inv[i].pc \in {"sleep", "poll"}
               \/ (inv[i].pc = "thrown" /\ inv[i].err = "RemoteServiceError")

C2_PendingAfter(i, n) ==
    /\ IsGenerateVideo(i)
    /\ inv[i].pc = "sleep"
    /\ Len(inv[i].fetched) = n + 1
    /\ ~Last(inv[i].fetched).done

C2_PollSettled(i, n) ==
    /\ IsGenerateVideo(i)
    /\ Len(inv[i].calls) = n + 2
    /\ Last(inv[i].calls) = "getVideosOperation"
    /\ \/ Len(inv[i].fetched) = n + 2
       \/ (inv[i].pc = "thrown" /\ inv[i].err = "RemoteServiceError")

(***************************************************************************)
(* C2.  While the current snapshot reports done == false the loop does not *)
(* end, and the next poll follows: with the snapshot after poll N pending  *)
(* and the timer armed, poll N+1 is eventually issued and eventually       *)
(* answered or failed.                                                     *)
(***************************************************************************)
C2_NextPollOccurs ==
    /\ [] C2_LoopStaysWhilePending
    /\ \A i \in {1} : \A n \in 0..MaxPolls :
         C2_PendingAfter(i, n) ~> C2_PollSettled(i, n)

C2_Witness ==
    \E i \in DOMAIN inv :
        /\ C2_PollSettled(i, 1)
        /\ Len(inv[i].fetched) = 3
        /\ PendingSeen(inv[i].fetched) = {1, 2, 3}

C3_Expected(n) ==
    <<Preparing, Initiating, InProgress>>
        \o [k \in 1..n |-> Message(CheckingText, k)]
        \o <<Finalizing>>

(***************************************************************************)
(* C3.  A run that returns has emitted exactly: preparing, initiating, in  *)
(* progress, "checking status" attempts 1, 2, ..., n in this order, then   *)
(* finalizing.                                                             *)
(***************************************************************************)
C3_ProgressOrder ==
    \A i \in DOMAIN inv :
        (IsGenerateVideo(i) /\ inv[i].pc = "returned") =>
            /\ Len(inv[i].progress) >= 4
            /\ inv[i].progress = C3_Expected(Len(inv[i].progress) - 4)

C3_Witness ==
    \E i \in DOMAIN inv :
        /\ IsGenerateVideo(i)
        /\ inv[i].pc = "returned"
        /\ Len(inv[i].progress) = 6

(***************************************************************************)
(* C4.  In every run each of the four fixed messages is emitted at most    *)
(* once and there is one "checking status" message per snapshot observed   *)
(* with done == false; with snapshots false, false, true the "checking     *)
(* status" messages are attempt 1 and attempt 2.                           *)
(***************************************************************************)
C4_MessageCounts ==
    \A i \in DOMAIN inv : IsGenerateVideo(i) =>
        LET s == inv[i] IN
        /\ \A m \in {Preparing, Initiating, InProgress, Finalizing} :
              Occurrences(s.progress, m) <= 1
        /\ Len(CheckingMessages(s.progress)) = Cardinality(PendingSeen(s.fetched))
        /\ (Len(s.fetched) = 3 /\ DoneSeen(s.fetched) = {3}) =>
              CheckingMessages(s.progress)
                  = <<Message(CheckingText, 1), Message(CheckingText, 2)>>

C4_Witness ==
    \E i \in DOMAIN inv :
        /\ IsGenerateVideo(i)
        /\ Len(inv[i].fetched) = 3
        /\ DoneSeen(inv[i].fetched) = {3}
        /\ Len(CheckingMessages(inv[i].progress)) = 2

(***************************************************************************)
(* C5.  A call of editImage or generateVideo made while no credential is   *)
(* configured throws the authentication error at once, and an invocation   *)
(* that threw it has read no file, issued no remote call and emitted no    *)
(* progress message.                                                       *)
(***************************************************************************)
C5_AuthFirst ==
    [][\A i \in DOMAIN inv :
          /\ (inv[i].pc = "idle" /\ inv'[i].pc # "idle" /\ env \in NoCredential) =>
                (inv'[i].pc = "thrown" /\ inv'[i].err = "ApiKeyMissing")
          /\ inv'[i].err = "ApiKeyMissing" =>
                /\ inv'[i].pc = "thrown"
                /\ inv'[i].reads = 0
                /\ inv'[i].calls = << >>
                /\ inv'[i].progress = << >>
                /\ inv'[i].result = Undefined]_vars

C5_Witness ==
    \E i \in DOMAIN inv :
        /\ IsGenerateVideo(i)
        /\ inv[i].err = "ApiKeyMissing"
        /\ env = Undefined

(***************************************************************************)
(* C6.  A remote call of generateVideo that is outstanding ends in one of  *)
(* two ways: a snapshot is received, or the invocation throws the remote   *)
(* error at once, with no remote call issued and no message emitted in     *)
(* that step.  A failed invocation never holds a "finalizing" message, and *)
(* it does nothing more: its next step is the caller's.                    *)
(***************************************************************************)
C6_FailFast ==
    [][\A i \in DOMAIN inv : IsGenerateVideo(i) =>
          /\ (inv[i].pc \in {"submit", "poll"} /\ inv'[i] # inv[i]) =>
                \/ /\ Len(inv'[i].fetched) = Len(inv[i].fetched) + 1
                   /\ inv'[i].calls = inv[i].calls
                \/ /\ inv'[i].pc = "thrown"
                   /\ inv'[i].err = "RemoteServiceError"
                   /\ inv'[i].calls = inv[i].calls
                   /\ inv'[i].progress = inv[i].progress
                   /\ inv'[i].fetched = inv[i].fetched
                   /\ inv'[i].result = Undefined
                   /\ Occurrences(inv'[i].progress, Finalizing) = 0
          /\ (inv[i].pc = "thrown" /\ inv'[i] # inv[i]) => inv'[i] = Idle]_vars

C6_Witness ==
    \E i \in DOMAIN inv :
        /\ IsGenerateVideo(i)
        /\ inv[i].pc = "thrown"
        /\ inv[i].err = "RemoteServiceError"
        /\ inv[i].calls = <<"generateVideos", "getVideosOperation", "getVideosOperation">>

(***************************************************************************)
(* C7.  When the submission (the only remote call issued so far) fails,    *)
(* the messages emitted are exactly preparing, then initiating.            *)
(***************************************************************************)
C7_SubmitFailure ==
    \A i \in DOMAIN inv :
        (/\ IsGenerateVideo(i)
         /\ inv[i].pc = "thrown"
         /\ inv[i].err = "RemoteServiceError"
         /\ inv[i].calls = <<"generateVideos">>)
            => inv[i].progress = <<Preparing, Initiating>>

C7_Witness ==
    \E i \in DOMAIN inv :
        /\ IsGenerateVideo(i)
        /\ inv[i].pc = "thrown"
        /\ inv[i].err = "RemoteServiceError"
        /\ inv[i].calls = <<"generateVideos">>
        /\ inv[i].fetched = << >>

C8_NoUriSnapshots ==
    {DoneNoResponse, DoneNoVideos, DoneEmptyVideos, DoneNoVideo, DoneNoUri, DoneEmptyUri}

(***************************************************************************)
(* C8.  When the latest snapshot reports done == true and carries no       *)
(* result URI, the invocation has thrown the no-result error, "finalizing" *)
(* is the last message emitted, and no URL is returned.                    *)
(***************************************************************************)
C8_NoResult ==
    \A i \in DOMAIN inv :
        (/\ IsGenerateVideo(i)
         /\ inv[i].fetched # << >>
         /\ Last(inv[i].fetched) \in C8_NoUriSnapshots)
            => /\ inv[i].pc = "thrown"
               /\ inv[i].err = "NoDownloadLink"
               /\ inv[i].progress # << >>
               /\ Last(inv[i].progress) = Finalizing
               /\ inv[i].result = Undefined

C8_Witness ==
    \E i \in DOMAIN inv :
        /\ IsGenerateVideo(i)
        /\ Len(inv[i].fetched) = 2
        /\ Last(inv[i].fetched) = DoneEmptyVideos
        /\ inv[i].err = "NoDownloadLink"

C9_NoImageResponses ==
    {RespNoCandidates, RespEmptyCandidates, RespEmptyParts, RespTextOnly}

(***************************************************************************)
(* C9.  editImage issues at most one remote call, and when the response    *)
(* holds no part with inline data (no candidate at all, an empty parts     *)
(* list, text parts only) the invocation has thrown the "no image data     *)
(* found" error and returned no value.                                     *)
(***************************************************************************)
C9_EditNoImage ==
    \A i \in DOMAIN inv : IsEditImage(i) =>
        /\ Len(inv[i].calls) <= 1
        /\ (inv[i].fetched # << >> /\ Last(inv[i].fetched) \in C9_NoImageResponses) =>
              /\ inv[i].pc = "thrown"
              /\ inv[i].err = "NoImageData"
              /\ inv[i].result = Undefined

C10_FirstUri(snapshot) ==
    IF snapshot = DoneWithUri THEN <<"https://example/video123">>
    ELSE IF snapshot = DoneTwoVideos THEN <<"https://example/second">>
    ELSE <<"no uri">>

C10_CredentialText(k) == IF k = Undefined THEN <<"undefined">> ELSE k.v

(***************************************************************************)
(* C10.  When generateVideo returns, the value is the URI of the first     *)
(* generated video of the latest snapshot fetched, followed by "&key=" and *)
(* the process-wide credential as text; for a final snapshot with URI      *)
(* https://example/video123 and credential K1 it is                        *)
(* https://example/video123&key=K1.                                        *)
(***************************************************************************)
C10_ReturnValue ==
    [][\A i \in DOMAIN inv :
          (IsGenerateVideo(i) /\ inv[i].pc # "returned" /\ inv'[i].pc = "returned") =>
              LET last == Last(inv'[i].fetched) IN
              /\ last \in {DoneWithUri, DoneTwoVideos}
              /\ inv'[i].result
                    = Str(C10_FirstUri(last) \o <<"&key=">> \o C10_CredentialText(env))
              /\ (last = DoneWithUri /\ env = Str(<<"K1">>)) =>
                    inv'[i].result = Str(<<"https://example/video123", "&key=", "K1">>)]_vars

C10_Witness ==
    \E i \in DOMAIN inv :
        /\ IsGenerateVideo(i)
        /\ inv[i].pc = "returned"
        /\ inv[i].fetched = <<PendingWithUri, DoneWithUri>>
        /\ inv[i].result = Str(<<"https://example/video123", "&key=", "K1">>)

(***************************************************************************)
(* C11.  The poll loop is strictly sequential: at most one remote call is  *)
(* outstanding, and none while the timer is pending; the k-th re-fetch is  *)
(* issued only after k snapshots have been returned and k suspensions of   *)
(* 10000 ms have elapsed; it is made with the snapshot the previous call   *)
(* returned, and the snapshot held is always the one returned last.        *)
(***************************************************************************)
C11_Sequential ==
    \A i \in DOMAIN inv : IsGenerateVideo(i) =>
        LET s == inv[i]
            outstanding == Len(s.calls) - Len(s.fetched)
                             - (IF s.err = "RemoteServiceError" THEN 1 ELSE 0)
        IN
        /\ outstanding \in {0, 1}
        /\ outstanding = 1 <=> s.pc \in {"submit", "poll"}
        /\ s.pc = "sleep" <=> s.timer # 0
        /\ s.timer \in {0, 10000}
        /\ s.timer # 0 => outstanding = 0
        /\ Len(s.args) = Cardinality({k \in 1..Len(s.calls) : s.calls[k] = "getVideosOperation"})
        /\ Len(s.args) <= Len(s.fetched)
        /\ s.waited = 10000 * Len(s.args)
        /\ \A k \in 1..Len(s.args) : s.args[k] = s.fetched[k]
        /\ s.fetched # << >> => s.operation = Last(s.fetched)

C11_Witness ==
    \E i \in DOMAIN inv :
        /\ IsGenerateVideo(i)
        /\ inv[i].pc = "poll"
        /\ inv[i].fetched = <<PendingBare, PendingWithUri>>
        /\ inv[i].args = <<PendingBare, PendingWithUri>>
        /\ inv[i].waited = 20000

(***************************************************************************)
(* C12.  With a remote service that reports done == false on every         *)
(* snapshot and never fails, an invocation that has received a snapshot    *)
(* is never returned or thrown, and from the submission on the attempt     *)
(* counter eventually exceeds every bound B below the number of snapshots  *)
(* the service is asked for.                                               *)
(***************************************************************************)
C12_NoCeiling ==
    /\ [](\A i \in DOMAIN inv :
            (IsGenerateVideo(i) /\ inv[i].fetched # << >>) => inv[i].pc \in {"sleep", "poll"})
    /\ \A i \in {1} : \A B \in 0..(MaxPolls - 1) :
         (IsGenerateVideo(i) /\ inv[i].pc = "submit")
            ~> (IsGenerateVideo(i) /\ inv[i].pollCount > B)

C12_Witness ==
    \E i \in DOMAIN inv :
        /\ IsGenerateVideo(i)
        /\ inv[i].pc = "poll"
        /\ inv[i].pollCount = MaxPolls
        /\ DoneSeen(inv[i].fetched) = {}
        /\ Len(inv[i].fetched) = MaxPolls

\* The decoding of base64, for the reader of a payload: <<-1>> stands for a
\* text that is not base64.
Base64Index(c) ==
    IF \E k \in 1..64 : Base64Alphabet[k] = c
    THEN (CHOOSE k \in 1..64 : Base64Alphabet[k] = c) - 1
    ELSE -1

Base64DecodeGroup(chars) ==
    LET pads == Cardinality({k \in 3..4 : chars[k] = PadChar})
        idx == [k \in 1..4 |-> IF chars[k] = PadChar /\ k >= 3 THEN 0 ELSE Base64Index(chars[k])]
        n == idx[1] * 262144 + idx[2] * 4096 + idx[3] * 64 + idx[4]
        three == <<n \div 65536, (n \div 256) % 256, n % 256>>
    IN  IF \E k \in 1..4 : idx[k] = -1 THEN <<-1>>
        ELSE IF chars[3] = PadChar /\ chars[4] # PadChar THEN <<-1>>
        ELSE SubSeq(three, 1, 3 - pads)

RECURSIVE Base64Decode(_)
Base64Decode(text) ==
    IF Len(text) = 0 THEN << >>
    ELSE IF Len(text) % 4 # 0 THEN <<-1>>
    ELSE LET head == Base64DecodeGroup(SubSeq(text, 1, 4))
             tail == Base64Decode(SubSeq(text, 5, Len(text)))
         IN  IF head = <<-1>> \/ tail = <<-1>> THEN <<-1>>
             ELSE IF Len(text) > 4 /\ Len(head) < 3 THEN <<-1>>
             ELSE head \o tail

(***************************************************************************)
(* C14.  fileToGenerativePart is all-or-nothing.  When the read succeeds   *)
(* (reader.result is a text) the call returns a payload whose mimeType is  *)
(* the file's declared type verbatim and whose data, decoded from base64,  *)
(* is exactly the file's bytes.  When the read fails or its result is not  *)
(* a text, the call throws and there is no payload, whole or partial.      *)
(***************************************************************************)
C14_RoundTrip ==
    /\ enc.pc = "returned" =>
         /\ enc.result.t = "string"
         /\ enc.err = "none"
         /\ enc.part.inlineData.mimeType = Str(enc.file.type)
         /\ enc.part.inlineData.data.t = "string"
         /\ Base64Decode(enc.part.inlineData.data.v) = enc.file.bytes
    /\ enc.pc = "thrown" =>
         /\ enc.result.t # "string"
         /\ enc.err \in {"ReadFailed", "ReadErrorEvent"}
         /\ enc.part = Undefined
    /\ enc.result.t = "string" => enc.pc = "returned"
    /\ enc.part # Undefined => enc.pc = "returned"
    /\ enc.promise = "resolved" <=> enc.pc = "returned"

C14_Witness ==
    /\ enc.pc = "returned"
    /\ enc.file = File(<<77, 255>>, <<"image/png">>)
    /\ enc.part = GenerativePart(Str(<<"T", "f", "8", "=">>), enc.file)

EncodingErrors == {ReadError(outcome) : outcome \in ReadOutcomes \ {"load"}}

(***************************************************************************)
(* C16.  When the read of the start frame or of the end frame fails, the   *)
(* invocation has thrown that error at once: no remote call has been       *)
(* issued (a start frame that was read is not sent on its own), nothing is *)
(* returned and "preparing" is the only message emitted.  At most the two  *)
(* reads have been started, the end frame's only after the start frame's.  *)
(***************************************************************************)
C16_EncodingFailure ==
    \A i \in DOMAIN inv :
        (IsGenerateVideo(i) /\ inv[i].err \in EncodingErrors) =>
            /\ inv[i].pc = "thrown"
            /\ inv[i].calls = << >>
            /\ inv[i].args = << >>
            /\ inv[i].progress = <<Preparing>>
            /\ inv[i].reads \in {1, 2}
            /\ inv[i].result = Idle.result
            /\ inv[i].operation = Idle.operation
            /\ inv[i].timer = 0

C16_Witness ==
    \E i \in DOMAIN inv :
        /\ IsGenerateVideo(i)
        /\ inv[i].pc = "thrown"
        /\ inv[i].err = "ReadErrorEvent"
        /\ inv[i].reads = 2

\* COMPLETE: a URL has been returned and no error raised.
C17_Complete(s) ==
    /\ s.pc = "returned"
    /\ s.result.t = "string"
    /\ s.result.v # << >>
    /\ s.err = "none"

\* FAILED: an error has been raised and nothing returned.
C17_Failed(s) ==
    /\ s.pc = "thrown"
    /\ s.err # "none"
    /\ s.result = Undefined

(***************************************************************************)
(* C17.  With every timer firing and every remote call answered, and a     *)
(* service that reports done == true or fails after at most MaxPolls       *)
(* snapshots, an invocation that has submitted its job eventually          *)
(* terminates.  A terminated invocation is in exactly one of COMPLETE (a   *)
(* URL is returned, no error) and FAILED (an error is raised, no value):   *)
(* never both, never neither; and before it terminates it is in neither.   *)
(***************************************************************************)
C17_Terminates ==
    /\ [](\A i \in DOMAIN inv : IsGenerateVideo(i) =>
            /\ ~(C17_Complete(inv[i]) /\ C17_Failed(inv[i]))
            /\ inv[i].pc \in {"returned", "thrown"}
                  => (C17_Complete(inv[i]) \/ C17_Failed(inv[i]))
            /\ inv[i].pc \notin {"returned", "thrown"}
                  => (inv[i].result = Undefined /\ inv[i].err = "none"))
    /\ \A i \in {1} :
         (IsGenerateVideo(i) /\ inv[i].pc \in {"submit", "sleep", "poll"})
            ~> (IsGenerateVideo(i) /\ (C17_Complete(inv[i]) \/ C17_Failed(inv[i])))

C17_Witness ==
    \E i \in DOMAIN inv :
        /\ IsGenerateVideo(i)
        /\ C17_Complete(inv[i])
        /\ Len(inv[i].fetched) = MaxPolls + 1
        /\ inv[i].pollCount = MaxPolls

\* The invocations suspended between their submission and their end.
C15_InFlight == {i \in DOMAIN inv : IsGenerateVideo(i) /\ inv[i].pc \in {"submit", "sleep", "poll"}}

(***************************************************************************)
(* C15.  With several generateVideo invocations in flight, each            *)
(* invocation's "checking status" messages are numbered 1, 2, 3, ...       *)
(* without gaps and as many as its own attempt counter says, whatever the  *)
(* other invocations do; its job snapshot, every snapshot it has fetched   *)
(* and every operation it has passed to a status re-fetch belong to the    *)
(* job it submitted itself; and its messages are those of its own stage.   *)
(***************************************************************************)
C15_NoInterference ==
    \A i \in DOMAIN inv : IsGenerateVideo(i) =>
        LET s == inv[i]
            checking == CheckingMessages(s.progress)
        IN
        /\ Len(checking) = s.pollCount
        /\ \A k \in 1..Len(checking) : checking[k].attempt = k
        /\ \A k \in 1..Len(s.args) : s.args[k].name = i
        /\ \A k \in 1..Len(s.fetched) : s.fetched[k].name = i
        /\ s.operation # Undefined => s.operation.name = i
        /\ s.pollCount = Cardinality(PendingSeen(s.fetched))
        /\ \A k \in 1..Len(s.args) : s.args[k] = s.fetched[k]

C15_Witness ==
    /\ C15_InFlight = {1, 2}
    /\ inv[1].pc = "poll"
    /\ inv[1].pollCount = 2
    /\ inv[2].pc = "sleep"
    /\ inv[2].pollCount = 3
    /\ Len(inv[2].args) = 2

\* The VideoGenerator shows the error of a generation that failed because no
\* credential is configured.
C13_AuthFailureShown ==
    /\ vg.mounted
    /\ ~vg.isLoading
    /\ vg.error = Str(ErrorMessage("ApiKeyMissing"))

\* The "Select API Key" button is rendered, so that handleSelectKey can run.
C13_SelectKeyOffered == vg.mounted /\ ~vg.isKeySelected

(***************************************************************************)
(* C13.  After a generation attempt in the VideoGenerator has failed       *)
(* because no credential is configured, the failure is recoverable: the    *)
(* key-selection action is offered (handleSelectKey is reachable), so that *)
(* the user can re-acquire a credential and retry.                         *)
(***************************************************************************)
C13_Recoverable == C13_AuthFailureShown => C13_SelectKeyOffered

ApiKeyErrorText == <<"API Key error. Please try selecting your API key again.">>

\* In this step the handler of the mounted VideoGenerator receives a failure
\* whose message contains "Requested entity was not found".
C18_NotFoundCaught ==
    \E i \in DOMAIN inv :
        /\ vg.mounted /\ vg.gen = i
        /\ inv[i].pc = "thrown" /\ inv'[i].pc = "idle"
        /\ IsError(inv[i].err)
        /\ Includes(ErrorMessage(inv[i].err), EntityNotFoundText)

\* In this step a call of generateVideo starts.
C18_GenerateVideoStarts ==
    \E i \in DOMAIN inv :
        inv[i].pc = "idle" /\ inv'[i].pc # "idle" /\ inv'[i].fn = "generateVideo"

\* The credential is treated as stale when the failure is caught.
C18_TreatedAsStale ==
    C18_NotFoundCaught =>
        /\ ~vg'.isKeySelected
        /\ vg'.error = Str(ApiKeyErrorText)
        /\ ~vg'.isLoading

(***************************************************************************)
(* C18.  When generateVideo fails in the VideoGenerator with a message     *)
(* containing "Requested entity was not found", the credential is treated  *)
(* as stale: isKeySelected becomes false, the error displayed is the       *)
(* "API Key error" message, and from then on no call of generateVideo      *)
(* starts before handleSelectKey has completed again.                      *)
(***************************************************************************)
C18_StaleKey ==
    [][/\ C18_TreatedAsStale
       /\ C18_GenerateVideoStarts => ~aistudio.staleKey]_vars

NoLoadingMessage == Message("", 0)

\* In this step the handler of the mounted VideoGenerator runs on after the
\* promise of the generation it awaits has settled.
C20_Settles ==
    \E i \in DOMAIN inv :
        /\ vg.mounted /\ vg.gen = i
        /\ inv[i].pc \in {"returned", "thrown"} /\ inv'[i].pc = "idle"

(***************************************************************************)
(* C20.  In the VideoGenerator, isLoading is true from the start of a      *)
(* validated generation until the promise of generateVideo has settled:    *)
(* it is true exactly while the handler awaits an invocation, and then the *)
(* loading message is the start message or the last message the            *)
(* invocation has emitted.  When the promise has settled, with a URL or    *)
(* with any error, the handler resets isLoading to false and               *)
(* loadingMessage to the empty string; while isLoading is false the        *)
(* loading message is empty.                                               *)
(***************************************************************************)
C20_LoadingLifecycle ==
    /\ [](/\ vg.isLoading <=> vg.gen # 0
          /\ vg.isLoading =>
                /\ vg.mounted
                /\ inv[vg.gen].fn = "generateVideo"
                /\ inv[vg.gen].pc # "idle"
                /\ vg.loadingMessage =
                      IF inv[vg.gen].progress = << >>
                      THEN Message("Starting video generation...", 0)
                      ELSE Last(inv[vg.gen].progress)
          /\ ~vg.isLoading => vg.loadingMessage = NoLoadingMessage)
    /\ [][C20_Settles =>
             /\ ~vg'.isLoading
             /\ vg'.loadingMessage = NoLoadingMessage
             /\ (inv[vg.gen].pc = "returned") <=> (vg'.generatedVideoUrl # Null)
             /\ (inv[vg.gen].pc = "thrown") <=> (vg'.error # Null)]_vars

C20_Witness ==
    /\ vg.mounted
    /\ ~vg.isLoading
    /\ vg.loadingMessage = NoLoadingMessage
    /\ vg.error = Str(UnknownErrorText)
    /\ vg.isKeySelected

(***************************************************************************)
(* C19.  In the ImageEditor, selecting a new image clears the previous     *)
(* result, also when an editImage call for the previously selected image   *)
(* is in flight: a non-null editedImage is always an edit of the image     *)
(* currently selected.                                                     *)
(***************************************************************************)
C19_ResultOfCurrentImage ==
    (ie.mounted /\ ie.editedImage # Null) => ie.editedOf = ie.originalImage

\* What handleGenerateClick requires before it calls generateVideo.
C21_AllPresent ==
    /\ vg.startFrame # Null
    /\ vg.endFrame # Null
    /\ \E k \in 1..Len(vg.prompt) : vg.prompt[k] # " "
    /\ vg.isKeySelected

C21_ValidationMessages ==
    {Str(<<"Please provide a start frame, an end frame, and a prompt.">>),
     Str(<<"Please select an API key before generating a video.">>)}

(***************************************************************************)
(* C21.  handleGenerateClick of the VideoGenerator calls generateVideo     *)
(* only when a start frame, an end frame, a non-blank prompt and           *)
(* isKeySelected == true are all present; run when one of them is          *)
(* missing, it sets an error message, starts no invocation and leaves      *)
(* isLoading, loadingMessage and generatedVideoUrl as they were.           *)
(***************************************************************************)
C21_Validation ==
    [][/\ C18_GenerateVideoStarts => (vg.mounted /\ C21_AllPresent)
       /\ (VideoHandlerRuns /\ ~C21_AllPresent) =>
             /\ vg'.error \in C21_ValidationMessages
             /\ vg'.isLoading = vg.isLoading
             /\ vg'.loadingMessage = vg.loadingMessage
             /\ vg'.generatedVideoUrl = vg.generatedVideoUrl
             /\ inv' = inv]_vars

C21_Witness ==
    /\ vg.mounted
    /\ vg.startFrame # Null /\ vg.endFrame # Null
    /\ vg.prompt = <<"a flower blooming">>
    /\ ~vg.isKeySelected
    /\ vg.error = Str(<<"Please select an API key before generating a video.">>)
    /\ vg.generatedVideoUrl # Null

(***************************************************************************)
(* C22.  In the VideoGenerator, whatever the user does (frames, prompt,    *)
(* key selection, the clicks the button permits, mode switches) and        *)
(* however the generations end, an error and a generated video are never   *)
(* both present: error # null and generatedVideoUrl # null do not hold in  *)
(* the same state.                                                         *)
(***************************************************************************)
C22_ErrorOrVideo == ~(vg.error # Null /\ vg.generatedVideoUrl # Null)

\* The component shows the error of a failed generation while an invocation
\* started before the component was last mounted has returned a URL.
C22_Witness ==
    /\ vg.mounted
    /\ vg.error = Str(ErrorMessage("NoDownloadLink"))
    /\ vg.generatedVideoUrl = Null
    /\ \E i \in DOMAIN inv : inv[i].fn = "generateVideo" /\ inv[i].pc = "returned"

\* The generateVideo invocations whose promise has not settled.
C23_InFlight ==
    {i \in DOMAIN inv : inv[i].fn = "generateVideo"
                            /\ inv[i].pc \notin {"idle", "returned", "thrown"}}

(***************************************************************************)
(* C23.  At most one generateVideo invocation started from the             *)
(* VideoGenerator is in flight at any time, across any sequence of clicks  *)
(* and of switches between the 'image' and 'video' modes of App.           *)
(***************************************************************************)
C23_OneInFlight == Cardinality(C23_InFlight) <= 1

\* The text after the last "&key=" of a URL.
C24_KeyParameter(url) ==
    LET at == CHOOSE k \in 0..Len(url) :
                  /\ k > 0 => url[k] = "&key="
                  /\ \A j \in (k + 1)..Len(url) : url[j] # "&key="
    IN  SubSeq(url, at + 1, Len(url))

(***************************************************************************)
(* C24.  The credential appended as the key parameter of the URL that      *)
(* generateVideo returns is the non-empty credential that was checked and  *)
(* given to the client at the start of that invocation, also when the      *)
(* process-wide credential is changed or cleared while the invocation is   *)
(* polling.                                                                *)
(***************************************************************************)
C24_SameCredential ==
    \A i \in DOMAIN inv :
        (IsGenerateVideo(i) /\ inv[i].pc = "returned") =>
            /\ inv[i].ai.t = "string"
            /\ inv[i].ai.v # << >>
            /\ C24_KeyParameter(inv[i].result.v) = inv[i].ai.v

====
